---- MODULE Spec2Model ----
(***************************************************************************)
(* A model of AdcircPy.Tides.TidalForcing (TidalForcing.py): the           *)
(* constructor of the tidal-argument table, its date validation, the       *)
(* constituent selection, the orbital elements and the nodal-factor and    *)
(* Greenwich-term dispatches.                                              *)
(*                                                                         *)
(* NUMBERS.  Python floats (IEEE binary64) are modelled by an IEEE-style   *)
(* binary format small enough for TLC's 32-bit integers: a value is an     *)
(* integer count of 2^-11 (Unit = 2048 counts per 1.0), the significand    *)
(* has 19 bits, and round-to-nearest-even applies after every operation.   *)
(* Counts below 2^19 (magnitudes below 256.0) are all representable; in    *)
(* [256, 512) only even counts are, in [512, 1024) only multiples of 4,    *)
(* and so on - as in binary64, where the spacing in [256, 512) is 2^-44    *)
(* and much finer near zero.  Angles in degrees, angles in radians and     *)
(* dimensionless factors all use this format.                              *)
(*                                                                         *)
(* TIME.  A datetime is its number of minutes since 0001-01-01T00:00       *)
(* (datetime.min), in the proleptic Gregorian calendar of the datetime     *)
(* module.                                                                 *)
(***************************************************************************)
EXTENDS Integers, Sequences, FiniteSets, TLC

(***************************************************************************)
(* Floating point                                                          *)
(***************************************************************************)
Abs(x) == IF x < 0 THEN -x ELSE x

Sgn(x) == IF x < 0 THEN -1 ELSE 1

\* counts per 1.0
Unit == 2^11

\* spacing of the representable counts at magnitude a >= 0
Spacing(a) ==
  CASE a < 2^19 -> 1    [] a < 2^20 -> 2    [] a < 2^21 -> 4
    [] a < 2^22 -> 8    [] a < 2^23 -> 16   [] a < 2^24 -> 32
    [] a < 2^25 -> 64   [] a < 2^26 -> 128  [] a < 2^27 -> 256
    [] a < 2^28 -> 512  [] a < 2^29 -> 1024 [] a < 2^30 -> 2048
    [] OTHER    -> 4096

\* <<q, r, d>>, the value q + r/d with 0 <= r < d, rounded to the nearest
\* integer, ties to the even one
RoundQR(h) ==
  IF 2 * h[2] < h[3] THEN h[1]
  ELSE IF 2 * h[2] > h[3] THEN h[1] + 1
  ELSE IF h[1] % 2 = 0 THEN h[1] ELSE h[1] + 1

\* the float nearest to the exact count n
Fl(n) ==
  LET a == Abs(n)
      s == Spacing(a)
  IN  Sgn(n) * s * RoundQR(<<a \div s, a % s, s>>)

\* a*b / B^n as <<quotient, remainder, B^n>>, by long multiplication on
\* the digits of a and b in base B (a, b >= 0, b < B^3, n in 1..3)
MulQR(a, b, B, n) ==
  LET a0 == a % B
      a1 == (a \div B) % B
      a2 == a \div (B * B)
      b0 == b % B
      b1 == (b \div B) % B
      b2 == b \div (B * B)
      c0 == a0 * b0
      c1 == a0 * b1 + a1 * b0
      c2 == a0 * b2 + a1 * b1 + a2 * b0
      c3 == a1 * b2 + a2 * b1
      c4 == a2 * b2
      t1 == c1 + (c0 \div B)
      t2 == c2 + (t1 \div B)
      d0 == c0 % B
      d1 == t1 % B
      d2 == t2 % B
  IN  CASE n = 1 -> <<t1 + B * (c2 + B * (c3 + B * c4)), d0, B>>
        [] n = 2 -> <<t2 + B * (c3 + B * c4), d1 * B + d0, B * B>>
        [] n = 3 -> <<c3 + (t2 \div B) + B * c4,
                      d2 * B * B + d1 * B + d0, B * B * B>>

\* a * 2^k / d as <<quotient, remainder, d>>, by long division, a few bits
\* at a time (a >= 0, 0 < d <= 2^29)
RECURSIVE ShlDivQR(_, _, _)
ShlDivQR(a, k, d) ==
  IF k = 0 THEN <<a \div d, a % d, d>>
  ELSE LET m == IF d < 2^20 THEN 11 ELSE IF d < 2^27 THEN 4 ELSE 2
           c == IF k < m THEN k ELSE m
           h == ShlDivQR(a, k - c, d)
           r == h[2] * 2^c
       IN  <<h[1] * 2^c + (r \div d), r % d, d>>

FAdd(a, b) == Fl(a + b)

FSub(a, b) == Fl(a - b)

FMul(a, b) == Fl(Sgn(a) * Sgn(b) * RoundQR(MulQR(Abs(a), Abs(b), Unit, 1)))

FDiv(a, b) == Fl(Sgn(a) * Sgn(b) * RoundQR(ShlDivQR(Abs(a), 11, Abs(b))))

\* an integer as a float
FInt(i) == Fl(i * Unit)

\* the decimal literal i.fffffffff (f: nine decimals) times the count x,
\* rounded to a count
LitTimes(i, f, x) ==
  Sgn(x) * (i * Abs(x) + RoundQR(MulQR(Abs(x), f, 1000, 3)))

\* the decimal literal i.fffffffff as a float
Lit(i, f) == Fl(LitTimes(i, f, Unit))

\* the product of the decimal literal i.fffffffff and the float x
LitMul(i, f, x) == Fl(LitTimes(i, f, x))

\* Python's x % m on floats (m > 0): fmod, which is exact and has the sign
\* of x, then m added - and the sum rounded - when the remainder is negative
PyMod(x, m) ==
  LET r == Sgn(x) * (Abs(x) % m)
  IN  IF r < 0 THEN Fl(r + m) ELSE r

(***************************************************************************)
(* numpy's elementary functions.  They are evaluated on counts of 2^-24    *)
(* ("fine" counts: series and Newton iterations) and the result is rounded *)
(* to a float.                                                             *)
(***************************************************************************)
\* fine counts per 1.0
Fine == 2^24

\* pi, 2 pi and pi/2 in fine counts
PiFine == 52707179

TwoPiFine == 2 * PiFine

HalfPiFine == PiFine \div 2

FineOf(x) == x * (Fine \div Unit)

OfFine(f) ==
  Fl(Sgn(f) * RoundQR(<<Abs(f) \div 8192, Abs(f) % 8192, 8192>>))

MulFine(a, b) == Sgn(a) * Sgn(b) * RoundQR(MulQR(Abs(a), Abs(b), 4096, 2))

\* a / b in fine counts, a and b in the same counts
DivFine(a, b) == Sgn(a) * Sgn(b) * RoundQR(ShlDivQR(Abs(a), 24, Abs(b)))

\* the integer nearest to a/n, n > 0
DivInt(a, n) == Sgn(a) * RoundQR(<<Abs(a) \div n, Abs(a) % n, n>>)

\* sin of y, -pi/2 <= y <= pi/2 : the series through y^11
SinPoly(y, y2) ==
  LET t5 == Fine - DivInt(y2, 110)
      t4 == Fine - DivInt(MulFine(y2, t5), 72)
      t3 == Fine - DivInt(MulFine(y2, t4), 42)
      t2 == Fine - DivInt(MulFine(y2, t3), 20)
      t1 == Fine - DivInt(MulFine(y2, t2), 6)
  IN  MulFine(y, t1)

SinSeries(y) == SinPoly(y, MulFine(y, y))

SinFine(x) ==
  LET r0 == x % TwoPiFine
      r  == IF r0 > PiFine THEN r0 - TwoPiFine ELSE r0
      y  == IF r > HalfPiFine THEN PiFine - r
            ELSE IF r < -HalfPiFine THEN -PiFine - r ELSE r
  IN  SinSeries(y)

CosFine(x) == SinFine(x + HalfPiFine)

\* a power of two that is at least the square root of v, in fine counts
SqrtGuess(v) ==
  4096 * (CASE v < 2^2  -> 2^1  [] v < 2^4  -> 2^2  [] v < 2^6  -> 2^3
            [] v < 2^8  -> 2^4  [] v < 2^10 -> 2^5  [] v < 2^12 -> 2^6
            [] v < 2^14 -> 2^7  [] v < 2^16 -> 2^8  [] v < 2^18 -> 2^9
            [] v < 2^20 -> 2^10 [] v < 2^22 -> 2^11 [] v < 2^24 -> 2^12
            [] v < 2^26 -> 2^13 [] v < 2^28 -> 2^14 [] OTHER    -> 2^15)

\* Newton's iteration for the square root of v > 0, from y >= sqrt(v)
RECURSIVE SqrtIter(_, _)
SqrtIter(v, y) ==
  LET z == (y + DivFine(v, y)) \div 2
  IN  IF z >= y THEN y ELSE SqrtIter(v, z)

SqrtFine(v) == IF v <= 0 THEN 0 ELSE SqrtIter(v, SqrtGuess(v))

\* arctan of z, |z| <= 0.2 : the series through z^9
AtanPoly(z, z2) ==
  LET t4 == DivInt(Fine, 7) - DivInt(z2, 9)
      t3 == DivInt(Fine, 5) - MulFine(z2, t4)
      t2 == DivInt(Fine, 3) - MulFine(z2, t3)
      t1 == Fine - MulFine(z2, t2)
  IN  MulFine(z, t1)

AtanSeries(z) == AtanPoly(z, MulFine(z, z))

\* tan(a/2) from tan(a)
AtanHalve(x) == DivFine(x, Fine + SqrtFine(Fine + MulFine(x, x)))

\* arctan of x, |x| <= 1
AtanFine(x) == 4 * AtanSeries(AtanHalve(AtanHalve(x)))

\* the angle of the point (x, y), in (-pi, pi]; x and y in the same counts
\* a: the arctan of the smaller of |x|, |y| over the larger, signed
Atan2Place(a, y, x) ==
  IF Abs(x) >= Abs(y)
  THEN IF x > 0 THEN a ELSE IF y >= 0 THEN PiFine - a ELSE -PiFine - a
  ELSE Sgn(y) * (HalfPiFine - a)

Atan2Fine(y, x) ==
  IF x = 0 /\ y = 0 THEN 0
  ELSE Atan2Place(AtanFine(IF Abs(x) >= Abs(y) THEN DivFine(y, Abs(x))
                           ELSE DivFine(x, Abs(y))), y, x)

np_sin(x) == OfFine(SinFine(FineOf(x)))

np_cos(x) == OfFine(CosFine(FineOf(x)))

\* sin/cos; the cosine of a float is never exactly zero
TanOf(s, c) ==
  IF c = 0 THEN Sgn(s) * (2^30)
  ELSE Fl(Sgn(s) * Sgn(c) * RoundQR(ShlDivQR(Abs(s), 11, Abs(c))))

np_tan(x) == TanOf(SinFine(FineOf(x)), CosFine(FineOf(x)))

np_sqrt(x) == OfFine(SqrtFine(FineOf(x)))

np_arctan(x) == OfFine(Atan2Fine(x, Unit))

np_arctan2(y, x) == OfFine(Atan2Fine(y, x))

\* arcsin of f (fine counts), |f| <= 1
AsinFine(f) == Atan2Fine(f, SqrtFine(Fine - MulFine(f, f)))

np_arcsin(x) == OfFine(AsinFine(FineOf(x)))

np_arccos(x) == OfFine(HalfPiFine - AsinFine(FineOf(x)))

\* x * (pi/180)
np_deg2rad(x) == LitMul(0, 17453293, x)

\* x * (180/pi)
np_rad2deg(x) == LitMul(57, 295779513, x)

\* x ** n for a small integer n >= 1 (pow: the exact power, rounded once)
RECURSIVE PowFine(_, _)
PowFine(f, n) == IF n = 1 THEN f ELSE MulFine(PowFine(f, n - 1), f)

FPow(x, n) == OfFine(PowFine(FineOf(x), n))

\* the float n * x for an integer n, as in 2.*x
K(n, x) == Fl(n * x)

\* t[1] + t[2] + ... evaluated from the left, every partial sum rounded;
\* a subtracted term is given negated
RECURSIVE Acc(_)
Acc(t) == IF Len(t) = 1 THEN t[1]
          ELSE FAdd(Acc(SubSeq(t, 1, Len(t) - 1)), t[Len(t)])

(***************************************************************************)
(* datetime                                                                *)
(***************************************************************************)
IsLeap(y) == y % 4 = 0 /\ (y % 100 # 0 \/ y % 400 = 0)

\* days from 0001-01-01 to the first day of year y
DaysBeforeYear(y) ==
  (y - 1) * 365 + ((y - 1) \div 4) - ((y - 1) \div 100) + ((y - 1) \div 400)

\* days from the first day of year y to the first day of its month m
DaysBeforeMonth(y, m) ==
  <<0, 31, 59, 90, 120, 151, 181, 212, 243, 273, 304, 334>>[m]
  + (IF m > 2 /\ IsLeap(y) THEN 1 ELSE 0)

\* datetime(y, m, d, hh, mm), in minutes since datetime.min
DateTime(y, m, d, hh, mm) ==
  (DaysBeforeYear(y) + DaysBeforeMonth(y, m) + d - 1) * 1440 + hh * 60 + mm

\* <<year, day of the year>> of the day with ordinal n (0 is 0001-01-01)
YearDay(n) ==
  LET n400 == n \div 146097
      r400 == n % 146097
      n100 == r400 \div 36524
      r100 == r400 % 36524
      n4   == r100 \div 1461
      r4   == r100 % 1461
      n1   == r4 \div 365
      r1   == r4 % 365
      y    == 400 * n400 + 100 * n100 + 4 * n4 + n1 + 1
  IN  IF n1 = 4 \/ n100 = 4 THEN <<y - 1, 366>> ELSE <<y, r1 + 1>>

\* datetime.year, datetime.timetuple().tm_yday, datetime.hour
year(t) == YearDay(t \div 1440)[1]

tm_yday(t) == YearDay(t \div 1440)[2]

hour(t) == (t % 1440) \div 60

\* timedelta(days=n), in minutes
\* variant of timedelta_days: n hours
timedelta_hours(n) == n * 60

timedelta_days(n) == n * 1440

\* Python's int(): truncation towards zero of the quotient a / b, b > 0
IntTrunc(a, b) == Sgn(a) * (Abs(a) \div b)

(***************************************************************************)
(* Python values                                                           *)
(***************************************************************************)
\* a date argument: a datetime (t: its minutes), None, or an object of
\* another type (a string, say)
Dt(t) == [kind |-> "datetime", t |-> t]

NoneDate == [kind |-> "None", t |-> 0]

NotADate == [kind |-> "str", t |-> 0]

isinstance_datetime(v) == v.kind = "datetime"

\* the constituents argument: None or a list of codes
NoneList == [kind |-> "None", items |-> <<>>]

ListOf(q) == [kind |-> "list", items |-> q]

\* a Python float or None, as returned by the dispatches
PyNone == [none |-> TRUE, v |-> 0]

PyFloat(x) == [none |-> FALSE, v |-> x]

\* a key of a constituent's dict: absent, or present with a value
Absent == [set |-> FALSE, none |-> FALSE, v |-> 0]

Present(r) == [set |-> TRUE, none |-> r.none, v |-> r.v]

NoError == [type |-> "", msg |-> "", constituent |-> "", possible |-> <<>>]

(***************************************************************************)
(* Arithmetic expressions of the source.  A formula of the source is       *)
(* written once, as the expression it is (an operator tree over the        *)
(* attributes of self), and Eval computes it in float arithmetic for given *)
(* attribute values, each operation rounded as it is performed.            *)
(***************************************************************************)
\* self.<name>
Attr(name) == <<"attr", name>>

\* a float literal with an integer value, as 2. or 90.
Num(i) == <<"num", i>>

\* an int operand converted to float
Float(x) == <<"float", x>>

\* the decimal literal i.fffffffff
Dec(i, f) == <<"dec", i, f>>

\* decimal literal * x
DecMul(i, f, x) == <<"decmul", i, f, x>>

\* -x
Neg(x) == <<"neg", x>>

Add(a, b) == <<"add", a, b>>

Sub(a, b) == <<"sub", a, b>>

Mul(a, b) == <<"mul", a, b>>

Div(a, b) == <<"div", a, b>>

\* n.*x for an integer n
Times(n, x) == <<"times", n, x>>

\* t[1] + t[2] + ... from the left; a subtracted term is given as Neg
Sum(t) == <<"sum", t>>

\* x ** n
Pow(x, n) == <<"pow", x, n>>

\* x % m
Mod(x, m) == <<"mod", x, m>>

Sin(x) == <<"sin", x>>

Cos(x) == <<"cos", x>>

Tan(x) == <<"tan", x>>

Sqrt(x) == <<"sqrt", x>>

Arctan(x) == <<"arctan", x>>

Arctan2(y, x) == <<"arctan2", y, x>>

Arcsin(x) == <<"arcsin", x>>

Arccos(x) == <<"arccos", x>>

Deg2rad(x) == <<"deg2rad", x>>

Rad2deg(x) == <<"rad2deg", x>>

RECURSIVE Eval(_, _)
Eval(x, e) ==
  CASE x[1] = "attr" -> e[x[2]]
    [] x[1] = "num" -> FInt(x[2])
    [] x[1] = "float" -> FInt(Eval(x[2], e))
    [] x[1] = "dec" -> Lit(x[2], x[3])
    [] x[1] = "decmul" -> LitMul(x[2], x[3], Eval(x[4], e))
    [] x[1] = "neg" -> -Eval(x[2], e)
    [] x[1] = "add" -> FAdd(Eval(x[2], e), Eval(x[3], e))
    [] x[1] = "sub" -> FSub(Eval(x[2], e), Eval(x[3], e))
    [] x[1] = "mul" -> FMul(Eval(x[2], e), Eval(x[3], e))
    [] x[1] = "div" -> FDiv(Eval(x[2], e), Eval(x[3], e))
    [] x[1] = "times" -> K(x[2], Eval(x[3], e))
    [] x[1] = "sum" -> Acc([i \in 1..Len(x[2]) |-> Eval(x[2][i], e)])
    [] x[1] = "pow" -> FPow(Eval(x[2], e), x[3])
    [] x[1] = "mod" -> PyMod(Eval(x[2], e), Eval(x[3], e))
    [] x[1] = "sin" -> np_sin(Eval(x[2], e))
    [] x[1] = "cos" -> np_cos(Eval(x[2], e))
    [] x[1] = "tan" -> np_tan(Eval(x[2], e))
    [] x[1] = "sqrt" -> np_sqrt(Eval(x[2], e))
    [] x[1] = "arctan" -> np_arctan(Eval(x[2], e))
    [] x[1] = "arctan2" -> np_arctan2(Eval(x[2], e), Eval(x[3], e))
    [] x[1] = "arcsin" -> np_arcsin(Eval(x[2], e))
    [] x[1] = "arccos" -> np_arccos(Eval(x[2], e))
    [] x[1] = "deg2rad" -> np_deg2rad(Eval(x[2], e))
    [] x[1] = "rad2deg" -> np_rad2deg(Eval(x[2], e))

\* the assignments <<attribute, expression>> of prog made in turn, each
\* expression computed from the attributes as they are by then
RECURSIVE Exec(_, _)
Exec(e, prog) ==
  IF prog = <<>> THEN e
  ELSE Exec([e EXCEPT ![prog[1][1]] = Eval(prog[1][2], e)], Tail(prog))

\* what a dispatch returned (None, or a formula), computed
Value(r, e) == IF r.none THEN PyNone ELSE PyFloat(Eval(r.v, e))

(***************************************************************************)
(* The orbital elements (self.DYR ... self.DQ), a record el                *)
(***************************************************************************)
NoElements ==
  [DYR |-> 0, DDAY |-> 0, hour_middle |-> 0,
   DN |-> 0, N |-> 0, DP |-> 0, P |-> 0, DH |-> 0, H |-> 0, DS |-> 0,
   S |-> 0, DP1 |-> 0, P1 |-> 0, I |-> 0, DI |-> 0, NU |-> 0, DNU |-> 0,
   XI |-> 0, DXI |-> 0, DT |-> 0, T |-> 0, NUP |-> 0, DNUP |-> 0,
   DPC |-> 0, PC |-> 0, R |-> 0, DR |-> 0, NUP2 |-> 0, DNUP2 |-> 0,
   Q |-> 0, DQ |-> 0]

\* the object as the formulas refer to it: self.DYR ... self.DQ
self == [name \in DOMAIN NoElements |-> Attr(name)]

F360 == Num(360)

\* (259.1560564-19.328185764*DYR-.0529539336*DDAY-.0022064139*hours) % 360.
get_lunar_node(e, hours) ==
  Mod(Sum(<<Dec(259, 156056400), Neg(DecMul(19, 328185764, e.DYR)),
              Neg(DecMul(0, 52953934, Float(e.DDAY))),
              Neg(DecMul(0, 2206414, hours))>>), F360)

\* (334.3837214+40.66246584*DYR+.111404016*DDAY+.004641834*hours) % 360.
get_lunar_perigee(e, hours) ==
  Mod(Sum(<<Dec(334, 383721400), DecMul(40, 662465840, e.DYR),
              DecMul(0, 111404016, Float(e.DDAY)),
              DecMul(0, 4641834, hours)>>), F360)

\* (277.0256206+129.38482032*DYR+13.176396768*DDAY+.549016532*hours) % 360.
get_lunar_mean_longitude(e, hours) ==
  Mod(Sum(<<Dec(277, 25620600), DecMul(129, 384820320, e.DYR),
              DecMul(13, 176396768, Float(e.DDAY)),
              DecMul(0, 549016532, hours)>>), F360)

\* (281.2208569+.01717836*DYR+.000047064*DDAY+.000001961*hours) % 360.
get_solar_perigee(e, hours) ==
  Mod(Sum(<<Dec(281, 220856900), DecMul(0, 17178360, e.DYR),
              DecMul(0, 47064, Float(e.DDAY)),
              DecMul(0, 1961, hours)>>), F360)

\* (280.1895014-.238724988*DYR+.9856473288*DDAY+.0410686387*hours) % 360.
get_solar_mean_longitude(e, hours) ==
  Mod(Sum(<<Dec(280, 189501400), Neg(DecMul(0, 238724988, e.DYR)),
              DecMul(0, 985647329, Float(e.DDAY)),
              DecMul(0, 41068639, hours)>>), F360)

\* spinup_date.hour + ((end_date - spinup_date).total_seconds()/3600)/2
HourMiddle(spinup, end) ==
  FAdd(FInt(hour(spinup)),
       Fl(Sgn(end - spinup) * RoundQR(ShlDivQR(Abs(end - spinup), 11, 120))))

\* _init_orbital_params, lines 85-87: the three attributes computed from
\* the dates themselves
OrbitalEpoch(el0, spinup, end) ==
  [el0 EXCEPT
     !.DYR = FInt(year(spinup) - 1900),
     !.DDAY = tm_yday(spinup) + IntTrunc(year(spinup) - 1901, 4) - 1,
     !.hour_middle = HourMiddle(spinup, end)]

\* variant of OrbitalLongitudes: the lunar mean longitude taken at
\* hour_middle as well
LongitudesAtMiddle(e, spinup) ==
  << <<"DN", get_lunar_node(e, e.hour_middle)>>,
     <<"N", Deg2rad(e.DN)>>,
     <<"DP", get_lunar_perigee(e, e.hour_middle)>>,
     <<"P", Deg2rad(e.DP)>>,
     <<"DH", get_solar_mean_longitude(e, Num(hour(spinup)))>>,
     <<"H", Deg2rad(e.DH)>>,
     <<"DS", get_lunar_mean_longitude(e, e.hour_middle)>>,
     <<"S", Deg2rad(e.DS)>>,
     <<"DP1", get_solar_perigee(e, Num(hour(spinup)))>>,
     <<"P1", Deg2rad(e.DP1)>> >>

\* lines 88-97, as assignments "attribute = expression" in source order
OrbitalLongitudes(e, spinup) ==
  << <<"DN", get_lunar_node(e, e.hour_middle)>>,
     <<"N", Deg2rad(e.DN)>>,
     <<"DP", get_lunar_perigee(e, e.hour_middle)>>,
     <<"P", Deg2rad(e.DP)>>,
     <<"DH", get_solar_mean_longitude(e, Num(hour(spinup)))>>,
     <<"H", Deg2rad(e.DH)>>,
     <<"DS", get_lunar_mean_longitude(e, Num(hour(spinup)))>>,
     <<"S", Deg2rad(e.DS)>>,
     <<"DP1", get_solar_perigee(e, Num(hour(spinup)))>>,
     <<"P1", Deg2rad(e.DP1)>> >>

\* line 98: arccos(.9136949-.0356926*cos(N))
Inclination(e) ==
  Arccos(Sub(Dec(0, 913694900), Mul(Dec(0, 35692600), Cos(e.N))))

\* line 100: arcsin(.0897056*sin(N)/sin(I))
Nu(e) ==
  Arcsin(Div(Mul(Dec(0, 89705600), Sin(e.N)), Sin(e.I)))

\* line 102: N-2.*arctan(.64412*tan(N/2)) - NU
Xi(e) ==
  Sum(<<e.N,
        Neg(Times(2, Arctan(Mul(Dec(0, 644120000), Tan(Div(e.N, Num(2))))))),
        Neg(e.NU)>>)

\* line 106: arctan(sin(NU)/(cos(NU)+.334766/sin(2.*I)))
Nup(e) ==
  Arctan(Div(Sin(e.NU),
                 Add(Cos(e.NU),
                      Div(Dec(0, 334766000), Sin(Times(2, e.I))))))

\* line 110: arctan(sin(2.*PC)/((1./6.)*(1./tan(.5*I))**2-cos(2.*PC)))
Rr(e) ==
  Arctan(Div(Sin(Times(2, e.PC)),
                 Sub(Mul(Div(Num(1), Num(6)),
                           Pow(Div(Num(1), Tan(Div(e.I, Num(2)))), 2)),
                      Cos(Times(2, e.PC)))))

\* line 112: arctan(sin(2.*NU)/(cos(2.*NU)+.0726184/sin(I)**2))/2.
Nup2(e) ==
  Div(Arctan(Div(Sin(Times(2, e.NU)),
                      Add(Cos(Times(2, e.NU)),
                           Div(Dec(0, 72618400), Pow(Sin(e.I), 2))))),
       Num(2))

\* line 114: arctan2((5.*cos(I)-1.)*sin(PC), (7.*cos(I)+1.)*cos(PC))
Qq(e) ==
  Arctan2(Mul(Sub(Times(5, Cos(e.I)), Num(1)), Sin(e.PC)),
             Mul(Add(Times(7, Cos(e.I)), Num(1)), Cos(e.PC)))

\* line 104: (180.+hour*(360./24)) % 360.
HourAngle(spinup) ==
  Mod(Add(Num(180), Mul(Num(hour(spinup)), Div(Num(360), Num(24)))), F360)

\* lines 98-99
OrbitalInclination(e) ==
  << <<"I", Inclination(e)>>, <<"DI", Rad2deg(e.I)>> >>

\* lines 100-103
OrbitalNode(e) ==
  << <<"NU", Nu(e)>>, <<"DNU", Rad2deg(e.NU)>>,
     <<"XI", Xi(e)>>, <<"DXI", Rad2deg(e.XI)>> >>

\* lines 104-109
OrbitalHourAngle(e, spinup) ==
  << <<"DT", HourAngle(spinup)>>, <<"T", Deg2rad(e.DT)>>,
     <<"NUP", Nup(e)>>, <<"DNUP", Rad2deg(e.NUP)>>,
     <<"DPC", Mod(Sub(e.DP, e.DXI), F360)>>, <<"PC", Deg2rad(e.DPC)>> >>

\* lines 110-115
OrbitalDerived(e) ==
  << <<"R", Rr(e)>>, <<"DR", Rad2deg(e.R)>>,
     <<"NUP2", Nup2(e)>>, <<"DNUP2", Rad2deg(e.NUP2)>>,
     <<"Q", Qq(e)>>, <<"DQ", Rad2deg(e.Q)>> >>

(***************************************************************************)
(* The base formulas of the nodal factors                                  *)
(***************************************************************************)
\* (2./3.-np.sin(I)**2)/.5021
EQ73(e) ==
  Div(Sub(Div(Num(2), Num(3)), Pow(Sin(e.I), 2)), Dec(0, 502100000))

\* np.sin(I)**2/.1578
EQ74(e) == Div(Pow(Sin(e.I), 2), Dec(0, 157800000))

\* np.sin(I)*np.cos(I/2.)**2/.37988
EQ75(e) ==
  Div(Mul(Sin(e.I), Pow(Cos(Div(e.I, Num(2))), 2)),
       Dec(0, 379880000))

\* np.sin(2.*I)/.7214
EQ76(e) == Div(Sin(Times(2, e.I)), Dec(0, 721400000))

\* np.sin(I)*np.sin(I/2.)**2/.0164
EQ77(e) ==
  Div(Mul(Sin(e.I), Pow(Sin(Div(e.I, Num(2))), 2)),
       Dec(0, 16400000))

\* (np.cos(I/2)**4)/.91544
EQ78(e) == Div(Pow(Cos(Div(e.I, Num(2))), 4), Dec(0, 915440000))

\* np.cos(I/2.)**6/.8758
EQ149(e) == Div(Pow(Cos(Div(e.I, Num(2))), 6), Dec(0, 875800000))

\* np.sqrt(2.310+1.435*np.cos(2.*(P - XI)))
EQ197(e) ==
  Sqrt(Add(Dec(2, 310000000),
               Mul(Dec(1, 435000000), Cos(Times(2, Sub(e.P, e.XI))))))

\* _EQ75()*_EQ197()
EQ207(e) == Mul(EQ75(e), EQ197(e))

\* np.sqrt(1.-12.*np.tan(I/2.)**2*np.cos(2.*P)+36.*np.tan(I/2.)**4)
EQ213(e) ==
  Sqrt(Sum(<<Num(1),
                Neg(Mul(Times(12, Pow(Tan(Div(e.I, Num(2))), 2)),
                      Cos(Times(2, e.P)))),
                Times(36, Pow(Tan(Div(e.I, Num(2))), 4))>>))

\* _EQ78()*_EQ213()
EQ215(e) == Mul(EQ78(e), EQ213(e))

\* np.sqrt(.8965*np.sin(2.*I)**2+.6001*np.sin(2.*I)*np.cos(NU)+.1006)
EQ227(e) ==
  Sqrt(Sum(<<Mul(Dec(0, 896500000), Pow(Sin(Times(2, e.I)), 2)),
                Mul(Mul(Dec(0, 600100000), Sin(Times(2, e.I))),
                     Cos(e.NU)),
                Dec(0, 100600000)>>))

\* .001+np.sqrt(19.0444*np.sin(I)**4+2.7702*np.sin(I)**2*np.cos(2.*NU)+.0981)
EQ235(e) ==
  Add(Dec(0, 1000000),
       Sqrt(Sum(<<Mul(Dec(19, 44400000), Pow(Sin(e.I), 4)),
                     Mul(Mul(Dec(2, 770200000), Pow(Sin(e.I), 2)),
                          Cos(Times(2, e.NU))),
                     Dec(0, 98100000)>>)))

\* variant of get_nodal_factor: the factor of M2 for every code
lunar_factor_for_all(e, constituent) == PyFloat(EQ78(e))

(***************************************************************************)
(* _get_nodal_factor: the if/elif chain on the constituent code.  A code   *)
(* without a branch falls off the end of the method, which returns None.   *)
(***************************************************************************)
get_nodal_factor(e, constituent) ==
  CASE constituent = "M2" -> PyFloat(EQ78(e))
    [] constituent = "S2" -> PyFloat(Num(1))
    [] constituent = "N2" -> PyFloat(EQ78(e))
    [] constituent = "K1" -> PyFloat(EQ227(e))
    [] constituent = "M4" -> PyFloat(Pow(EQ78(e), 2))
    [] constituent = "O1" -> PyFloat(EQ75(e))
    [] constituent = "M6" -> PyFloat(Pow(EQ78(e), 3))
    [] constituent = "MK3" -> PyFloat(Mul(EQ78(e), EQ227(e)))
    [] constituent = "S4" -> PyFloat(Num(1))
    [] constituent = "MN4" -> PyFloat(Pow(EQ78(e), 2))
    [] constituent = "Nu2" -> PyFloat(EQ78(e))
    [] constituent = "S6" -> PyFloat(Num(1))
    [] constituent = "MU2" -> PyFloat(EQ78(e))
    [] constituent = "2N2" -> PyFloat(EQ78(e))
    [] constituent = "OO1" -> PyFloat(EQ77(e))
    [] constituent = "lambda2" -> PyFloat(EQ78(e))
    [] constituent = "S1" -> PyFloat(Num(1))
    [] constituent = "M1" -> PyFloat(EQ207(e))
    [] constituent = "J1" -> PyFloat(EQ76(e))
    [] constituent = "Mm" -> PyFloat(EQ73(e))
    [] constituent = "Ssa" -> PyFloat(Num(1))
    [] constituent = "Sa" -> PyFloat(Num(1))
    [] constituent = "Msf" -> PyFloat(EQ78(e))
    [] constituent = "Mf" -> PyFloat(EQ74(e))
    [] constituent = "RHO" -> PyFloat(EQ75(e))
    [] constituent = "Q1" -> PyFloat(EQ75(e))
    [] constituent = "T2" -> PyFloat(Num(1))
    [] constituent = "R2" -> PyFloat(Num(1))
    [] constituent = "2Q1" -> PyFloat(EQ75(e))
    [] constituent = "P1" -> PyFloat(Num(1))
    [] constituent = "2SM2" -> PyFloat(EQ78(e))
    [] constituent = "M3" -> PyFloat(EQ149(e))
    [] constituent = "L2" -> PyFloat(EQ215(e))
    [] constituent = "2MK3" -> PyFloat(Mul(EQ227(e), Pow(EQ78(e), 2)))
    [] constituent = "K2" -> PyFloat(EQ235(e))
    [] constituent = "M8" -> PyFloat(Pow(EQ78(e), 4))
    [] constituent = "MS4" -> PyFloat(EQ78(e))
    [] OTHER -> PyNone

(***************************************************************************)
(* _get_greenwich_term: the same kind of chain, in degrees, not yet        *)
(* reduced modulo 360.                                                     *)
(***************************************************************************)
\* DXI-DNU, the difference most branches double
XiNu(e) == Sub(e.DXI, e.DNU)

\* DT-DS+DH
TSH(e) == Sum(<<e.DT, Neg(e.DS), e.DH>>)

get_greenwich_term(e, constituent) ==
  CASE constituent = "M2" ->
         PyFloat(Add(Times(2, TSH(e)), Times(2, XiNu(e))))
    [] constituent = "S2" -> PyFloat(Times(2, e.DT))
    [] constituent = "N2" ->
         PyFloat(Sum(<<Times(2, Add(e.DT, e.DH)), Neg(Times(3, e.DS)), e.DP,
                       Times(2, XiNu(e))>>))
    [] constituent = "K1" ->
         PyFloat(Sum(<<e.DT, e.DH, Neg(Num(90)), Neg(e.DNUP)>>))
    [] constituent = "M4" ->
         PyFloat(Add(Times(4, TSH(e)), Times(4, XiNu(e))))
    [] constituent = "O1" ->
         PyFloat(Sum(<<e.DT, Neg(Times(2, e.DS)), e.DH, Num(90), Times(2, e.DXI),
                       Neg(e.DNU)>>))
    [] constituent = "M6" ->
         PyFloat(Add(Times(6, TSH(e)), Times(6, XiNu(e))))
    [] constituent = "MK3" ->
         PyFloat(Sum(<<Times(3, Add(e.DT, e.DH)), Neg(Times(2, e.DS)), Neg(Num(90)),
                       Times(2, XiNu(e)), Neg(e.DNUP)>>))
    [] constituent = "S4" -> PyFloat(Times(4, e.DT))
    [] constituent = "MN4" ->
         PyFloat(Sum(<<Times(4, Add(e.DT, e.DH)), Neg(Times(5, e.DS)), e.DP,
                       Times(4, XiNu(e))>>))
    [] constituent = "Nu2" ->
         PyFloat(Sum(<<Times(2, e.DT), Neg(Times(3, e.DS)), Times(4, e.DH), Neg(e.DP),
                       Times(2, XiNu(e))>>))
    [] constituent = "S6" -> PyFloat(Times(6, e.DT))
    [] constituent = "MU2" ->
         PyFloat(Add(Times(2, Add(e.DT, Times(2, Sub(e.DH, e.DS)))),
                      Times(2, XiNu(e))))
    [] constituent = "2N2" ->
         PyFloat(Add(Times(2, Sum(<<e.DT, Neg(Times(2, e.DS)), e.DH, e.DP>>)),
                      Times(2, XiNu(e))))
    [] constituent = "OO1" ->
         PyFloat(Sum(<<e.DT, Times(2, e.DS), e.DH, Neg(Num(90)), Neg(Times(2, e.DXI)),
                       Neg(e.DNU)>>))
    [] constituent = "lambda2" ->
         PyFloat(Sum(<<Times(2, e.DT), Neg(e.DS), e.DP, Num(180), Times(2, XiNu(e))>>))
    [] constituent = "S1" -> PyFloat(e.DT)
    [] constituent = "M1" ->
         PyFloat(Sum(<<e.DT, Neg(e.DS), e.DH, Neg(Num(90)), e.DXI, Neg(e.DNU), e.DQ>>))
    [] constituent = "J1" ->
         PyFloat(Sum(<<e.DT, e.DS, e.DH, Neg(e.DP), Neg(Num(90)), Neg(e.DNU)>>))
    [] constituent = "Mm" -> PyFloat(Sub(e.DS, e.DP))
    [] constituent = "Ssa" -> PyFloat(Times(2, e.DH))
    [] constituent = "Sa" -> PyFloat(e.DH)
    [] constituent = "Msf" -> PyFloat(Times(2, Sub(e.DS, e.DH)))
    [] constituent = "Mf" -> PyFloat(Sub(Times(2, e.DS), Times(2, e.DXI)))
    [] constituent = "RHO" ->
         PyFloat(Sum(<<e.DT, Times(3, Sub(e.DH, e.DS)), Neg(e.DP), Num(90),
                       Times(2, e.DXI), Neg(e.DNU)>>))
    [] constituent = "Q1" ->
         PyFloat(Sum(<<e.DT, Neg(Times(3, e.DS)), e.DH, e.DP, Num(90), Times(2, e.DXI),
                       Neg(e.DNU)>>))
    [] constituent = "T2" -> PyFloat(Sum(<<Times(2, e.DT), Neg(e.DH), e.DP1>>))
    [] constituent = "R2" ->
         PyFloat(Sum(<<Times(2, e.DT), e.DH, Neg(e.DP1), Num(180)>>))
    [] constituent = "2Q1" ->
         PyFloat(Sum(<<e.DT, Neg(Times(4, e.DS)), e.DH, Times(2, e.DP), Num(90),
                       Times(2, e.DXI), Neg(e.DNU)>>))
    [] constituent = "P1" -> PyFloat(Sum(<<e.DT, Neg(e.DH), Num(90)>>))
    [] constituent = "2SM2" ->
         PyFloat(Add(Times(2, Sum(<<e.DT, e.DS, Neg(e.DH)>>)),
                      Times(2, Sub(e.DNU, e.DXI))))
    [] constituent = "M3" ->
         PyFloat(Add(Times(3, TSH(e)), Times(3, XiNu(e))))
    [] constituent = "L2" ->
         PyFloat(Sum(<<Times(2, Add(e.DT, e.DH)), Neg(e.DS), Neg(e.DP), Num(180),
                       Times(2, XiNu(e)), Neg(e.DR)>>))
    [] constituent = "2MK3" ->
         PyFloat(Sum(<<Times(3, Add(e.DT, e.DH)), Neg(Times(4, e.DS)), Num(90),
                       Times(4, XiNu(e)), e.DNUP>>))
    [] constituent = "K2" ->
         PyFloat(Sub(Times(2, Add(e.DT, e.DH)), Times(2, e.DNUP2)))
    [] constituent = "M8" ->
         PyFloat(Add(Times(8, TSH(e)), Times(8, XiNu(e))))
    [] constituent = "MS4" ->
         PyFloat(Add(Times(2, Sum(<<Times(2, e.DT), Neg(e.DS), e.DH>>)),
                      Times(2, XiNu(e))))
    [] OTHER -> PyNone

(***************************************************************************)
(* The static reference tables of AdcircPy.Tides.orbital_constants: for    *)
(* each table, the codes it has a value for.  The copied values themselves *)
(* play no part in what follows, so an entry records which keys were       *)
(* copied.                                                                 *)
(***************************************************************************)
DefaultConstituents ==
  <<"Mm", "Mf", "Q1", "O1", "P1", "S1", "K1", "2N2", "N2", "M2", "S2", "K2",
    "MN4", "M4", "MS4">>

Range(q) == {q[i] : i \in 1..Len(q)}

CatalogTables ==
  {"doodson_coefficient", "tidal_potential_amplitude",
   "earth_tidal_potential_reduction_factor"}

orbital_constants(tbl) == Range(DefaultConstituents)

\* self[constituent] = dict() followed by the catalog copies, lines 74-81
NewEntry(c) ==
  [key |-> c,
   catalog |-> {"orbital_frequency"}
                 \cup {tbl \in CatalogTables : c \in orbital_constants(tbl)},
   nodal_factor |-> Absent, greenwich_term |-> Absent]

\* OrderedDict: position of a key, 0 when it is not a key
KeyIndex(tab, c) ==
  IF \E i \in 1..Len(tab) : tab[i].key = c
  THEN CHOOSE i \in 1..Len(tab) : tab[i].key = c
  ELSE 0

\* variant of SetItem: the entry always goes first
PutFirst(tab, entry) == <<entry>> \o tab

\* OrderedDict.__setitem__: a new key goes last, an existing key keeps its
\* position and gets the new value
SetItem(tab, entry) ==
  IF KeyIndex(tab, entry.key) = 0 THEN Append(tab, entry)
  ELSE [tab EXCEPT ![KeyIndex(tab, entry.key)] = entry]

keys(tab) == [i \in 1..Len(tab) |-> tab[i].key]

(***************************************************************************)
(* Errors                                                                  *)
(***************************************************************************)
IOError(m) ==
  [type |-> "IOError", msg |-> m, constituent |-> "", possible |-> <<>>]

DateException(m) ==
  [type |-> "Exception", msg |-> m, constituent |-> "", possible |-> <<>>]

\* variant of UnknownException: the message names the code only
UnknownWithoutList(c, defaults) ==
  [type |-> "Exception", msg |-> "Unknown Tidal Constituent",
   constituent |-> c, possible |-> <<>>]

\* lines 67-68: the message names the code and lists default_constituents
UnknownException(c, defaults) ==
  [type |-> "Exception", msg |-> "Unknown Tidal Constituent",
   constituent |-> c, possible |-> defaults]

\* datetime - timedelta outside [datetime.min, datetime.max]
OverflowError ==
  [type |-> "OverflowError", msg |-> "date value out of range",
   constituent |-> "", possible |-> <<>>]

InvalidDateType(e) ==
  e.type = "IOError"
  /\ e.msg \in {"start_date must be a datetime.datetime instance.",
                "end_date must be a datetime.datetime instance.",
                "spinup_date must be a datetime.datetime instance."}

InvalidDateOrder(e) ==
  e.type = "Exception"
  /\ e.msg \in {"end_date must be larger than start_date.",
                "spinup_date must be smaller than start_date."}

UnknownConstituent(e) ==
  e.type = "Exception" /\ e.msg = "Unknown Tidal Constituent"

(***************************************************************************)
(* Arguments the constructor is called with                                *)
(***************************************************************************)
MaxLen == 2

Codes == {"Mm", "K1", "Zx"}

RECURSIVE SeqsUpTo(_, _)
SeqsUpTo(S, n) ==
  IF n = 0 THEN {<<>>}
  ELSE LET shorter == SeqsUpTo(S, n - 1)
       IN  shorter \cup {Append(q, c) : q \in shorter, c \in S}

ConstituentArgs ==
  {NoneList} \cup {ListOf(q) : q \in SeqsUpTo(Codes, MaxLen)}

StartDates ==
  {Dt(DateTime(1, 1, 10, 0, 0)), Dt(DateTime(1890, 1, 16, 0, 0)),
   Dt(DateTime(1930, 2, 1, 0, 0)), NotADate}

EndDates ==
  {Dt(DateTime(1890, 1, 16, 0, 0)), Dt(DateTime(1895, 5, 17, 0, 30)),
   Dt(DateTime(1930, 3, 1, 0, 0)), NotADate}

SpinupDates ==
  {NoneDate, NotADate, Dt(DateTime(1890, 1, 1, 0, 0)),
   Dt(DateTime(1930, 1, 17, 6, 0)), Dt(DateTime(1930, 2, 1, 0, 0))}

Unset == [kind |-> "unset", t |-> 0]

UnsetList == [kind |-> "unset", items |-> <<>>]

(***************************************************************************)
(* State: the arguments of the call, the attributes of the object under    *)
(* construction, its OrderedDict content (table), the position in          *)
(* __init__ (pc, idx), the exception that ended it (err), and the number   *)
(* of calls made to core.get_cache_dir.                                    *)
(***************************************************************************)
VARIABLES args, start_date, end_date, spinup_date, constituents,
          default_constituents, cachedir, tpxo_path, table, el, pc, idx, err,
          get_cache_dir_calls, requests, prev, query

vars == <<args, start_date, end_date, spinup_date, constituents,
          default_constituents, cachedir, tpxo_path, table, el, pc, idx, err,
          get_cache_dir_calls, requests, prev, query>>

dates == <<start_date, end_date, spinup_date>>

attrs == <<constituents, default_constituents, cachedir, tpxo_path>>

others == <<args, get_cache_dir_calls, requests, prev, query>>

MaxRequests == 2

Call(a) ==
  /\ args = a
  /\ start_date = Unset
  /\ end_date = Unset
  /\ spinup_date = Unset
  /\ constituents = UnsetList
  /\ default_constituents = <<>>
  /\ cachedir = ""
  /\ tpxo_path = ""
  /\ table = <<>>
  /\ el = NoElements
  /\ pc = "new"
  /\ idx = 0
  /\ err = NoError

Init ==
  /\ \E s \in StartDates, e \in EndDates, sp \in SpinupDates,
        c \in ConstituentArgs :
       Call([start_date |-> s, end_date |-> e, spinup_date |-> sp,
             constituents |-> c])
  /\ get_cache_dir_calls = 0
  /\ requests = 1
  /\ prev = <<>>
  /\ query = <<>>

\* the same call on a fresh object, as a step
Restart(a) ==
  /\ args' = a
  /\ start_date' = Unset
  /\ end_date' = Unset
  /\ spinup_date' = Unset
  /\ constituents' = UnsetList
  /\ default_constituents' = <<>>
  /\ cachedir' = ""
  /\ tpxo_path' = ""
  /\ table' = <<>>
  /\ el' = NoElements
  /\ pc' = "new"
  /\ idx' = 0
  /\ err' = NoError

Raise(e) ==
  /\ err' = e
  /\ pc' = "error"

\* __init__, lines 20-28
Assign ==
  /\ pc = "new"
  /\ constituents' = args.constituents
  /\ start_date' = args.start_date
  /\ end_date' = args.end_date
  /\ spinup_date' = args.spinup_date
  /\ get_cache_dir_calls' = get_cache_dir_calls + 1
  /\ cachedir' = "cachedir"
  /\ tpxo_path' = "cachedir/h_tpxo9.v1.nc"
  /\ default_constituents' = DefaultConstituents
  /\ pc' = "check_start_date"
  /\ UNCHANGED <<table, el, idx, err, args, requests, prev, query>>

\* variant of check_start_date: no check
check_start_date_skipped ==
  /\ pc = "check_start_date"
  /\ pc' = "check_end_date"
  /\ UNCHANGED <<dates, attrs, table, el, idx, err, others>>

\* lines 38-40
check_start_date ==
  /\ pc = "check_start_date"
  /\ IF ~isinstance_datetime(start_date)
     THEN Raise(IOError("start_date must be a datetime.datetime instance."))
     ELSE pc' = "check_end_date" /\ err' = err
  /\ UNCHANGED <<dates, attrs, table, el, idx, others>>

\* variant of check_end_date: an end_date equal to start_date is let through
check_end_date_equal_allowed ==
  /\ pc = "check_end_date"
  /\ IF ~isinstance_datetime(end_date)
     THEN Raise(IOError("end_date must be a datetime.datetime instance."))
     ELSE IF end_date.t < start_date.t
     THEN Raise(DateException("end_date must be larger than start_date."))
     ELSE pc' = "check_spinup_date" /\ err' = err
  /\ UNCHANGED <<dates, attrs, table, el, idx, others>>

\* lines 42-46
check_end_date ==
  /\ pc = "check_end_date"
  /\ IF ~isinstance_datetime(end_date)
     THEN Raise(IOError("end_date must be a datetime.datetime instance."))
     ELSE IF end_date.t <= start_date.t
     THEN Raise(DateException("end_date must be larger than start_date."))
     ELSE pc' = "check_spinup_date" /\ err' = err
  /\ UNCHANGED <<dates, attrs, table, el, idx, others>>

\* lines 48-55
check_spinup_date ==
  /\ pc = "check_spinup_date"
  /\ IF spinup_date.kind = "None"
     THEN IF start_date.t - timedelta_days(15) < 0
          THEN Raise(OverflowError) /\ spinup_date' = spinup_date
          ELSE /\ spinup_date' = Dt(start_date.t - timedelta_days(15))
               /\ pc' = "init_constituent_dictionary"
               /\ err' = err
     ELSE /\ spinup_date' = spinup_date
          /\ IF ~isinstance_datetime(spinup_date)
             THEN Raise(IOError(
                    "spinup_date must be a datetime.datetime instance."))
             ELSE IF spinup_date.t >= start_date.t
             THEN Raise(DateException(
                    "spinup_date must be smaller than start_date."))
             ELSE pc' = "init_constituent_dictionary" /\ err' = err
  /\ UNCHANGED <<start_date, end_date, attrs, table, el, idx, others>>

\* lines 63-64 and 69-71
init_constituent_dictionary ==
  /\ pc = "init_constituent_dictionary"
  /\ IF constituents.kind # "None"
     THEN constituents' = ListOf(constituents.items) /\ pc' = "validate"
     ELSE constituents' = ListOf(default_constituents) /\ pc' = "insert"
  /\ idx' = 1
  /\ UNCHANGED <<dates, default_constituents, cachedir, tpxo_path, table, el,
                 err, others>>

\* variant of validate_constituent: a code is inserted as soon as it has
\* been checked
validate_and_insert ==
  /\ pc = "validate"
  /\ IF idx > Len(constituents.items)
     THEN pc' = "insert" /\ idx' = 1 /\ err' = err /\ table' = table
     ELSE IF constituents.items[idx] \notin Range(default_constituents)
     THEN /\ Raise(UnknownException(constituents.items[idx],
                                    default_constituents))
          /\ idx' = idx
          /\ table' = table
     ELSE /\ pc' = pc
          /\ idx' = idx + 1
          /\ err' = err
          /\ table' = SetItem(table, NewEntry(constituents.items[idx]))
  /\ UNCHANGED <<dates, attrs, el, others>>

\* lines 65-68, one iteration of the loop
validate_constituent ==
  /\ pc = "validate"
  /\ IF idx > Len(constituents.items)
     THEN pc' = "insert" /\ idx' = 1 /\ err' = err
     ELSE IF constituents.items[idx] \notin Range(default_constituents)
     THEN /\ Raise(UnknownException(constituents.items[idx],
                                    default_constituents))
          /\ idx' = idx
     ELSE pc' = pc /\ idx' = idx + 1 /\ err' = err
  /\ UNCHANGED <<dates, attrs, table, el, others>>

\* lines 73-81, one iteration of the loop
insert_constituent ==
  /\ pc = "insert"
  /\ IF idx > Len(constituents.items)
     THEN pc' = "orbital_epoch" /\ idx' = idx /\ table' = table
     ELSE /\ table' = SetItem(table, NewEntry(constituents.items[idx]))
          /\ idx' = idx + 1
          /\ pc' = pc
  /\ UNCHANGED <<dates, attrs, el, err, others>>

\* _init_orbital_params, lines 85-87
orbital_epoch ==
  /\ pc = "orbital_epoch"
  /\ el' = OrbitalEpoch(el, spinup_date.t, end_date.t)
  /\ pc' = "orbital_longitudes"
  /\ UNCHANGED <<dates, attrs, table, idx, err, others>>

\* lines 88-97
orbital_longitudes ==
  /\ pc = "orbital_longitudes"
  /\ el' = Exec(el, OrbitalLongitudes(self, spinup_date.t))
  /\ pc' = "orbital_inclination"
  /\ UNCHANGED <<dates, attrs, table, idx, err, others>>

\* lines 98-99
orbital_inclination ==
  /\ pc = "orbital_inclination"
  /\ el' = Exec(el, OrbitalInclination(self))
  /\ pc' = "orbital_node"
  /\ UNCHANGED <<dates, attrs, table, idx, err, others>>

\* lines 100-103
orbital_node ==
  /\ pc = "orbital_node"
  /\ el' = Exec(el, OrbitalNode(self))
  /\ pc' = "orbital_hour_angle"
  /\ UNCHANGED <<dates, attrs, table, idx, err, others>>

\* lines 104-109
orbital_hour_angle ==
  /\ pc = "orbital_hour_angle"
  /\ el' = Exec(el, OrbitalHourAngle(self, spinup_date.t))
  /\ pc' = "orbital_derived"
  /\ UNCHANGED <<dates, attrs, table, idx, err, others>>

\* lines 110-115
orbital_derived ==
  /\ pc = "orbital_derived"
  /\ el' = Exec(el, OrbitalDerived(self))
  /\ pc' = "node_factors"
  /\ idx' = 1
  /\ UNCHANGED <<dates, attrs, table, err, others>>

\* x % 360. applied to what the Greenwich dispatch returned; None % 360.
\* is a TypeError
GreenwichMod(r) == PyFloat(Mod(r.v, F360))

TypeError ==
  [type |-> "TypeError",
   msg |-> "unsupported operand type(s) for %: 'NoneType' and 'float'",
   constituent |-> "", possible |-> <<>>]

\* _init_node_factors, lines 118-122, one iteration of the loop
init_node_factors ==
  /\ pc = "node_factors"
  /\ IF idx > Len(table)
     THEN pc' = "done" /\ idx' = idx /\ table' = table /\ err' = err
     ELSE LET c == table[idx].key
              g == get_greenwich_term(self, c)
              n == Present(Value(get_nodal_factor(self, c), el))
          IN  IF g.none
              THEN /\ Raise(TypeError)
                   /\ table' = [table EXCEPT ![idx].nodal_factor = n]
                   /\ idx' = idx
              ELSE /\ table' =
                        [table EXCEPT
                           ![idx].nodal_factor = n,
                           ![idx].greenwich_term =
                              Present(Value(GreenwichMod(g), el))]
                   /\ idx' = idx + 1
                   /\ pc' = pc
                   /\ err' = err
  /\ UNCHANGED <<dates, attrs, el, others>>

\* a further construction: same spinup_date and constituents arguments,
\* start_date and end_date chosen anew; the finished object is kept in prev
NewRequest ==
  /\ pc = "done"
  /\ requests < MaxRequests
  /\ \E s \in StartDates, e \in EndDates :
       Restart([args EXCEPT !.start_date = s, !.end_date = e])
  /\ prev' = <<[args |-> args, spinup_date |-> spinup_date,
                end_date |-> end_date, table |-> table, el |-> el]>>
  /\ requests' = requests + 1
  /\ UNCHANGED <<get_cache_dir_calls, query>>

ExtendedCodes ==
  {"M2", "S2", "N2", "K1", "M4", "O1", "M6", "MK3", "S4", "MN4", "Nu2", "S6",
   "MU2", "2N2", "OO1", "lambda2", "S1", "M1", "J1", "Mm", "Ssa", "Sa",
   "Msf", "Mf", "RHO", "Q1", "T2", "R2", "2Q1", "P1", "2SM2", "M3", "L2",
   "2MK3", "K2", "M8", "MS4"}

\* a call of _get_nodal_factor on the finished object
QueryNodalFactor ==
  /\ pc = "done"
  /\ \E c \in ExtendedCodes \cup {"Zx"} :
       query' = <<[constituent |-> c, result |-> Value(get_nodal_factor(self, c), el)]>>
  /\ UNCHANGED <<dates, attrs, table, el, pc, idx, err, args,
                 get_cache_dir_calls, requests, prev>>

Construct ==
  \/ Assign
  \/ check_start_date
  \/ check_end_date
  \/ check_spinup_date
  \/ init_constituent_dictionary
  \/ validate_constituent
  \/ insert_constituent
  \/ orbital_epoch
  \/ orbital_longitudes
  \/ orbital_inclination
  \/ orbital_node
  \/ orbital_hour_angle
  \/ orbital_derived
  \/ init_node_factors

Next == Construct

Spec == Init /\ [][Next]_vars

NextPair == Construct \/ NewRequest

SpecPair == Init /\ [][NextPair]_vars

NextDispatch == Construct \/ QueryNodalFactor

SpecDispatch == Init /\ [][NextDispatch]_vars

(***************************************************************************)
(* Properties                                                              *)
(***************************************************************************)
\* the call has returned or raised
Terminal == pc \in {"done", "error"}

Requested == args.constituents.items

\* the 15 codes of the default vocabulary, as the documentation lists them
Vocabulary15 ==
  <<"Mm", "Mf", "Q1", "O1", "P1", "S1", "K1", "2N2", "N2", "M2", "S2", "K2",
    "MN4", "M4", "MS4">>

\* start_date, end_date and (if supplied) spinup_date are all timestamps
AllTimestamps ==
  /\ args.start_date.kind = "datetime"
  /\ args.end_date.kind = "datetime"
  /\ args.spinup_date.kind \in {"None", "datetime"}

\* the dates pass _init_dates
DatesAccepted ==
  /\ AllTimestamps
  /\ args.start_date.t < args.end_date.t
  /\ IF args.spinup_date.kind = "None" THEN args.start_date.t >= 15 * 1440
     ELSE args.spinup_date.t < args.start_date.t

\* C1: with timestamps for start, end and (if supplied) spinup, the
\* construction ends in the date-order error exactly when
\* end_date <= start_date or the supplied spinup_date >= start_date, and a
\* constructed object has spinup_date < start_date < end_date
C1_DateOrder ==
  (Terminal /\ AllTimestamps) =>
    /\ (pc = "error" /\ InvalidDateOrder(err))
         <=> \/ args.end_date.t <= args.start_date.t
             \/ /\ args.spinup_date.kind = "datetime"
                /\ args.spinup_date.t >= args.start_date.t
    /\ pc = "done" =>
         /\ spinup_date.kind = "datetime"
         /\ spinup_date.t < start_date.t
         /\ start_date.t < end_date.t

\* the date-order error raised for a supplied spinup_date equal to start_date
C1_Witness ==
  /\ pc = "error"
  /\ InvalidDateOrder(err)
  /\ args.end_date.t > args.start_date.t
  /\ args.spinup_date = args.start_date

\* C2: with dates that pass, a requested code outside the 15 default codes
\* ends the construction in the unknown-constituent error, whose message
\* lists the 15 default codes; a request of default codes only never does
C2_UnknownConstituent ==
  (Terminal /\ DatesAccepted) =>
    IF \E i \in 1..Len(Requested) : Requested[i] \notin Range(Vocabulary15)
    THEN /\ pc = "error"
         /\ UnknownConstituent(err)
         /\ err.possible = Vocabulary15
    ELSE ~UnknownConstituent(err)

\* the error raised for a request whose first code is a default one
C2_Witness ==
  /\ pc = "error"
  /\ UnknownConstituent(err)
  /\ err.constituent = "Zx"
  /\ Len(Requested) = 2
  /\ Requested[1] = "K1"

\* the requested codes, each at its first occurrence only
RECURSIVE FirstOccurrences(_)
FirstOccurrences(q) ==
  IF q = <<>> THEN <<>>
  ELSE LET r == FirstOccurrences(SubSeq(q, 1, Len(q) - 1))
       IN  IF q[Len(q)] \in Range(r) THEN r ELSE Append(r, q[Len(q)])

\* C3 (amended): the keys of a constructed table are the requested codes in
\* request order, a repeated code counted at its first occurrence only, one
\* entry per distinct code; without a request they are the 15 default codes
\* in their order
C3_KeysFirstOccurrence ==
  pc = "done" =>
    /\ keys(table) = IF args.constituents.kind = "None" THEN Vocabulary15
                     ELSE FirstOccurrences(Requested)
    /\ args.constituents.kind # "None" =>
         Len(table) = Cardinality(Range(Requested))

\* a table constructed for a request that repeats a code
C3_Witness ==
  /\ pc = "done"
  /\ Len(Requested) = 2
  /\ Requested[1] = Requested[2]
  /\ Len(table) = 1

\* C3 as stated: the key sequence equals the sequence of requested codes
C3_KeysEqualRequest ==
  pc = "done" =>
    keys(table) = IF args.constituents.kind = "None" THEN Vocabulary15
                  ELSE Requested

\* C4 (amended): with spinup_date omitted and timestamps start_date <
\* end_date, spinup_date resolves to start_date minus 15 days, and the
\* orbital computation starts from that value, provided start_date is not
\* within 15 days of the earliest timestamp; if it is, the construction
\* ends in an overflow error.  A supplied spinup_date that passes is kept.
C4_DefaultSpinup ==
  /\ ( /\ Terminal
       /\ args.spinup_date.kind = "None"
       /\ args.start_date.kind = "datetime"
       /\ args.end_date.kind = "datetime"
       /\ args.start_date.t < args.end_date.t ) =>
       IF args.start_date.t >= 15 * 1440
       THEN /\ spinup_date = Dt(args.start_date.t - 15 * 1440)
            /\ pc = "done" =>
                 /\ el.DYR = FInt(year(args.start_date.t - 15 * 1440) - 1900)
                 /\ el.DDAY =
                      tm_yday(args.start_date.t - 15 * 1440)
                      + IntTrunc(year(args.start_date.t - 15 * 1440) - 1901, 4)
                      - 1
                 /\ el.hour_middle =
                      HourMiddle(args.start_date.t - 15 * 1440,
                                 args.end_date.t)
       ELSE pc = "error" /\ err.type = "OverflowError"
  /\ (Terminal /\ DatesAccepted /\ args.spinup_date.kind = "datetime") =>
       spinup_date = args.spinup_date

\* an object constructed with the default spinup_date
C4_Witness ==
  /\ pc = "done"
  /\ args.spinup_date.kind = "None"
  /\ spinup_date.t = args.start_date.t - 15 * 1440

\* C4 as stated: whenever spinup_date is omitted and start_date < end_date
\* are timestamps, spinup_date resolves to start_date minus 15 days
C4_AlwaysResolved ==
  ( /\ Terminal
    /\ args.spinup_date.kind = "None"
    /\ args.start_date.kind = "datetime"
    /\ args.end_date.kind = "datetime"
    /\ args.start_date.t < args.end_date.t ) =>
    spinup_date = Dt(args.start_date.t - 15 * 1440)

\* C5 as stated: every stored greenwich_term of a constructed table is
\* defined and lies in [0, 360)
C5_GreenwichRange ==
  pc = "done" =>
    \A i \in 1..Len(table) :
      /\ table[i].greenwich_term.set
      /\ ~table[i].greenwich_term.none
      /\ 0 <= table[i].greenwich_term.v
      /\ table[i].greenwich_term.v < 360 * Unit

\* C6: the nodal-factor dispatch returns exactly 1.0 for S1, S2, S4, S6, T2,
\* R2, Sa and Ssa whatever the orbital elements are, and a value (not None)
\* for every code of the default vocabulary
C6_UnitFactors ==
  /\ query # <<>> =>
       /\ query[1].constituent
            \in {"S1", "S2", "S4", "S6", "T2", "R2", "Sa", "Ssa"} =>
            query[1].result = [none |-> FALSE, v |-> Unit]
       /\ query[1].constituent \in Range(Vocabulary15) =>
            ~query[1].result.none
  /\ \A i \in 1..Len(table) :
       table[i].nodal_factor.set =>
         /\ ~table[i].nodal_factor.none
         /\ table[i].key \in {"S1", "S2"} => table[i].nodal_factor.v = Unit

\* the dispatch asked for T2 on an object whose elements are computed
C6_Witness ==
  /\ query # <<>>
  /\ query[1].constituent = "T2"
  /\ query[1].result.v = Unit
  /\ el.I > 0

\* C7 (amended): a start_date or end_date that is not a timestamp always
\* ends the construction in the date-type error; a supplied spinup_date
\* that is not a timestamp, with timestamps for the other two, does so when
\* end_date > start_date, and otherwise the date-order error is raised
C7_DateType ==
  Terminal =>
    /\ ( \/ args.start_date.kind # "datetime"
         \/ args.end_date.kind # "datetime" ) =>
         pc = "error" /\ InvalidDateType(err)
    /\ ( /\ args.start_date.kind = "datetime"
         /\ args.end_date.kind = "datetime"
         /\ args.spinup_date.kind \notin {"None", "datetime"} ) =>
         /\ pc = "error"
         /\ IF args.end_date.t > args.start_date.t
            THEN InvalidDateType(err)
            ELSE InvalidDateOrder(err)

\* a spinup_date of the wrong type answered with the date-order error
C7_Witness ==
  /\ pc = "error"
  /\ InvalidDateOrder(err)
  /\ args.spinup_date.kind = "str"

\* C7 as stated: any date argument that is not a timestamp ends the
\* construction in the date-type error, whatever the other arguments are
C7_AnyCombination ==
  ( /\ Terminal
    /\ \/ args.start_date.kind # "datetime"
       \/ args.end_date.kind # "datetime"
       \/ args.spinup_date.kind \notin {"None", "datetime"} ) =>
    pc = "error" /\ InvalidDateType(err)

\* C8: when the construction ends in the date-type, date-order or
\* unknown-constituent error, the table is empty and no orbital element has
\* been computed; and an entry is in the table only after the dates and
\* every requested code have passed
C8_FailFast ==
  /\ ( /\ pc = "error"
       /\ \/ InvalidDateType(err)
          \/ InvalidDateOrder(err)
          \/ UnknownConstituent(err) ) =>
       /\ table = <<>>
       /\ el = NoElements
  /\ (table # <<>> \/ el # NoElements) =>
       /\ DatesAccepted
       /\ \A i \in 1..Len(Requested) : Requested[i] \in Range(Vocabulary15)

\* the unknown code is the last of the request, after a default one
C8_Witness ==
  /\ pc = "error"
  /\ UnknownConstituent(err)
  /\ idx = Len(Requested)
  /\ idx = 2
  /\ Requested[1] \in Range(Vocabulary15)
  /\ table = <<>>

\* C9: two objects constructed with the same supplied spinup_date, the same
\* end_date and the same constituents have the same elements and the same
\* table, whatever their start_date; hour_middle is spinup_date's hour plus
\* half the hours from spinup_date to end_date, DN and DP are the lunar node
\* and perigee at hour_middle, and S, H, P1 and T (with DS, DH, DP1, DT) are
\* the same for any end_date
C9_SpinupAndEndOnly ==
  ( /\ pc = "done"
    /\ prev # <<>>
    /\ args.spinup_date.kind = "datetime" ) =>
    /\ prev[1].spinup_date = spinup_date
    /\ prev[1].args.constituents = args.constituents
    /\ prev[1].end_date = end_date =>
         /\ el = prev[1].el
         /\ table = prev[1].table
    /\ el.hour_middle = HourMiddle(spinup_date.t, end_date.t)
    /\ \A a \in {<<"DN", get_lunar_node(self, self.hour_middle)>>,
                 <<"DP", get_lunar_perigee(self, self.hour_middle)>>} :
         el[a[1]] = Eval(a[2], el)
    /\ \A name \in {"S", "DS", "H", "DH", "P1", "DP1", "T", "DT"} :
         el[name] = prev[1].el[name]

\* two constructions that differ in start_date only
C9_Witness ==
  /\ pc = "done"
  /\ prev # <<>>
  /\ args.spinup_date.kind = "datetime"
  /\ prev[1].end_date = end_date
  /\ prev[1].args.start_date # args.start_date
  /\ table # <<>>

\* C10 as stated: the cache-directory resolver is never called
C10_NoCacheDirCall == get_cache_dir_calls = 0

====
